---- MODULE Spec2Model ----
(***************************************************************************)
(* Address book of src/privo.py and src/telia.py.                          *)
(*                                                                         *)
(* The two files implement the same API (Field/Name/Phone, Record,         *)
(* AddressBook).  A run uses one of them, chosen at the start (impl); every *)
(* action is one API call on that implementation's objects.  A Python      *)
(* string is a sequence of characters, a character is a one-element token. *)
(* Record objects live in a heap                                           *)
(* (a sequence, the index is the object's identity); a Phone object is     *)
(* held by exactly one slot of one list, so a list of Phone objects is the *)
(* sequence of their values.  The dict of an AddressBook is a function     *)
(* whose domain is the set of keys present (insertion order is not kept).  *)
(***************************************************************************)
EXTENDS Integers, Sequences, FiniteSets, TLC

VARIABLES
    impl,   \* "privo" or "telia": the file whose classes the run uses
    heap,   \* the Record objects constructed so far: [name, phones]
    data,   \* AddressBook.data: name -> Record object (index into heap)
    last    \* the last call: its arguments, outcome, and the state before it

vars == <<impl, heap, data, last>>

(* ---------------------------- bounds and inputs ------------------------ *)

\* Record objects constructed in a run.
MaxRecords == 2

\* Phone objects held by one Record (SpecRecord).
MaxPhones == 3

\* Phone objects held by one Record (Spec, the address book).
MaxBookPhones == 1

\* The length validate_phone / Phone.__init__ compare len() against.
PhoneLen == 10

Names == {"Andriy", "Maria"}

AsciiDigits == {"0", "1", "2", "3", "4", "5", "6", "7", "8", "9"}

\* Characters outside '0'..'9' for which Python's str.isdigit() is True
\* (U+00B2 SUPERSCRIPT TWO, U+0663 ARABIC-INDIC DIGIT THREE).
UnicodeDigits == {"SUPERSCRIPT_TWO", "ARABIC_INDIC_THREE"}

PhoneA == <<"0", "9", "8", "1", "2", "3", "4", "5", "6", "7">>
PhoneB == <<"0", "6", "3", "1", "1", "1", "2", "2", "3", "3">>
Empty == << >>
Long11 == <<"0", "9", "8", "1", "2", "3", "4", "5", "6", "7", "8">>
Alpha10 == <<"0", "9", "8", "1", "2", "3", "4", "5", "6", "a">>
Super10 == <<"0", "9", "8", "1", "2", "3", "4", "5", "6", "SUPERSCRIPT_TWO">>

\* The strings the callers pass as phone arguments (SpecRecord).
Raw == {PhoneA, PhoneB, Empty, Long11, Alpha10, Super10}

\* The strings the callers pass as phone arguments (Spec, the address book).
BookRaw == {PhoneA, Alpha10}

\* What the documentation calls a phone: exactly 10 characters, each '0'..'9'.
TenAsciiDigits(s) == Len(s) = 10 /\ \A i \in 1..Len(s) : s[i] \in AsciiDigits

(* ------------------------------ outcomes ------------------------------- *)

NoExc == [exc |-> "None", msg |-> ""]

Raise(cls, msg) == [exc |-> cls, msg |-> msg]

Raised(out) == out.exc # "None"

(* ------------------------- Field / Name / Phone ------------------------ *)

\* str.isdigit(): all characters are digits and there is at least one.
isdigit(s) == Len(s) > 0 /\ \A i \in 1..Len(s) : s[i] \in AsciiDigits \cup UnicodeDigits

\* privo.py Phone.validate_phone: the exception it raises, or NoExc.
privo_validate_phone(number) ==
    IF ~isdigit(number) \/ Len(number) # PhoneLen
    THEN Raise("ValueError", "Phone number must contain exactly 10 digits")
    ELSE NoExc

\* privo.py Phone.value setter (also run by Field.__init__ through self.value = value).
privo_Phone_set_value(new_value) == privo_validate_phone(new_value)

\* telia.py Phone.__init__: validates, then Field.__init__ stores the value.
telia_Phone_init(value) ==
    IF ~isdigit(value) \/ Len(value) # PhoneLen
    THEN Raise("ValueError", "Phone number must contain exactly 10 digits")
    ELSE NoExc

\* telia.py: Phone defines no setter, phone.value = x is a plain attribute store.
telia_Phone_set_value(new_value) == NoExc

(* -------------------------------- Record ------------------------------- *)

\* Record.__init__ (both files).
Record(name) == [name |-> name, phones |-> << >>]

\* The scan "for p in phones: if p.value == phone": index of the first match, 0 if none.
FirstIndex(phones, phone) ==
    IF \E i \in 1..Len(phones) : phones[i] = phone
    THEN CHOOSE i \in 1..Len(phones) :
            phones[i] = phone /\ \A j \in 1..(i - 1) : phones[j] # phone
    ELSE 0

\* Each Record operation yields the new list, the exception raised (or NoExc)
\* and what it returns (0 for None).
Result(phones, out, ret) == [phones |-> phones, out |-> out, ret |-> ret]

privo_add_phone(phones, phone) ==
    LET out == privo_Phone_set_value(phone)
    IN  IF Raised(out) THEN Result(phones, out, 0)
        ELSE Result(Append(phones, phone), NoExc, 0)

telia_add_phone(phones, phone) ==
    LET out == telia_Phone_init(phone)
    IN  IF Raised(out) THEN Result(phones, out, 0)
        ELSE Result(Append(phones, phone), NoExc, 0)

\* Variant of remove_phone that drops only the first matching entry (list.remove).
privo_remove_phone_first(phones, phone) ==
    LET i == FirstIndex(phones, phone)
    IN  IF i = 0 THEN Result(phones, NoExc, 0)
        ELSE Result(SubSeq(phones, 1, i - 1) \o SubSeq(phones, i + 1, Len(phones)), NoExc, 0)

Keep(phones, phone) ==
    LET differs(p) == p # phone IN SelectSeq(phones, differs)

privo_remove_phone(phones, phone) == Result(Keep(phones, phone), NoExc, 0)

telia_remove_phone(phones, phone) == Result(Keep(phones, phone), NoExc, 0)

\* Variant of edit_phone without the return: every matching entry is rewritten.
privo_edit_phone_all(phones, old_phone, new_phone) ==
    LET out == privo_Phone_set_value(new_phone)
    IN  IF FirstIndex(phones, old_phone) = 0
        THEN Result(phones, Raise("ValueError", "Phone number {old_phone} not found"), 0)
        ELSE IF Raised(out) THEN Result(phones, out, 0)
        ELSE Result([k \in 1..Len(phones) |->
                        IF phones[k] = old_phone THEN new_phone ELSE phones[k]], NoExc, 0)

\* Variant of edit_phone that validates new_phone before it looks for old_phone.
privo_edit_phone_validate_first(phones, old_phone, new_phone) ==
    LET i == FirstIndex(phones, old_phone)
        out == privo_Phone_set_value(new_phone)
    IN  IF Raised(out) THEN Result(phones, out, 0)
        ELSE IF i = 0
        THEN Result(phones, Raise("ValueError", "Phone number {old_phone} not found"), 0)
        ELSE Result([phones EXCEPT ![i] = new_phone], NoExc, 0)

privo_edit_phone(phones, old_phone, new_phone) ==
    LET i == FirstIndex(phones, old_phone)
        out == privo_Phone_set_value(new_phone)
    IN  IF i = 0
        THEN Result(phones, Raise("ValueError", "Phone number {old_phone} not found"), 0)
        ELSE IF Raised(out) THEN Result(phones, out, 0)
        ELSE Result([phones EXCEPT ![i] = new_phone], NoExc, 0)

telia_edit_phone(phones, old_phone, new_phone) ==
    LET i == FirstIndex(phones, old_phone)
        out == telia_Phone_set_value(new_phone)
    IN  IF i = 0
        THEN Result(phones,
                    Raise("ValueError", "Phone number {old_phone} not found in the record"), 0)
        ELSE IF Raised(out) THEN Result(phones, out, 0)
        ELSE Result([phones EXCEPT ![i] = new_phone], NoExc, 0)

\* find_phone returns the Phone object found: its index in the list, 0 for None.
privo_find_phone(phones, phone) == Result(phones, NoExc, FirstIndex(phones, phone))

telia_find_phone(phones, phone) == Result(phones, NoExc, FirstIndex(phones, phone))

(* ------------------------------ AddressBook ---------------------------- *)

\* dict store d[k] = v
DictSet(d, k, v) == [x \in DOMAIN d \cup {k} |-> IF x = k THEN v ELSE d[x]]

\* del d[k]
DictDel(d, k) == [x \in DOMAIN d \ {k} |-> d[x]]

\* Variant of add_record that keeps an existing entry (dict.setdefault).
privo_add_record_setdefault(d, h, r) ==
    IF h[r].name \in DOMAIN d THEN d ELSE DictSet(d, h[r].name, r)

\* Variant of add_record that takes the key from the first Record constructed.
privo_add_record_stale_key(d, h, r) == DictSet(d, h[1].name, r)

\* add_record(record): self.data[record.name.value] = record
privo_add_record(d, h, r) == DictSet(d, h[r].name, r)

telia_add_record(d, h, r) == DictSet(d, h[r].name, r)

\* find(name): self.data.get(name); the Record object (its heap index) or 0 for None.
privo_find(d, name) == IF name \in DOMAIN d THEN d[name] ELSE 0

telia_find(d, name) == IF name \in DOMAIN d THEN d[name] ELSE 0

\* Variant of delete without the membership test: del raises KeyError.
privo_delete_unguarded(d, name) ==
    IF name \in DOMAIN d THEN [data |-> DictDel(d, name), out |-> NoExc]
    ELSE [data |-> d, out |-> Raise("KeyError", "{name}")]

\* delete(name): if name in self.data: del self.data[name]
privo_delete(d, name) ==
    IF name \in DOMAIN d THEN [data |-> DictDel(d, name), out |-> NoExc]
    ELSE [data |-> d, out |-> NoExc]

telia_delete(d, name) ==
    IF name \in DOMAIN d THEN [data |-> DictDel(d, name), out |-> NoExc]
    ELSE [data |-> d, out |-> NoExc]

(* ------------------------------- the calls ----------------------------- *)

Impls == {"privo", "telia"}

\* The method of the implementation the run uses.
add_phone(phones, phone) ==
    IF impl = "privo" THEN privo_add_phone(phones, phone) ELSE telia_add_phone(phones, phone)

remove_phone(phones, phone) ==
    IF impl = "privo" THEN privo_remove_phone(phones, phone)
    ELSE telia_remove_phone(phones, phone)

edit_phone(phones, old_phone, new_phone) ==
    IF impl = "privo" THEN privo_edit_phone(phones, old_phone, new_phone)
    ELSE telia_edit_phone(phones, old_phone, new_phone)

find_phone(phones, phone) ==
    IF impl = "privo" THEN privo_find_phone(phones, phone)
    ELSE telia_find_phone(phones, phone)

add_record(d, h, r) ==
    IF impl = "privo" THEN privo_add_record(d, h, r) ELSE telia_add_record(d, h, r)

find(d, name) == IF impl = "privo" THEN privo_find(d, name) ELSE telia_find(d, name)

delete(d, name) == IF impl = "privo" THEN privo_delete(d, name) ELSE telia_delete(d, name)

EmptyDict == [x \in {} |-> 0]

\* The record of a call: op, the Record it was made on (0: none), the name and
\* phone arguments, the exception raised, the value returned, and the phone
\* list of that Record and the dict as they were before the call.
Call(op, r, name, a1, a2, out, ret, pre_phones, pre_data) ==
    [op |-> op, rec |-> r, name |-> name, a1 |-> a1, a2 |-> a2, out |-> out,
     ret |-> ret, pre_phones |-> pre_phones, pre_data |-> pre_data]

\* book = AddressBook()
Init ==
    /\ impl \in Impls
    /\ heap = << >>
    /\ data = EmptyDict
    /\ last = Call("AddressBook", 0, "", << >>, << >>, NoExc, 0, << >>, EmptyDict)

\* record = Record(name)
NewRecord(name) ==
    /\ Len(heap) < MaxRecords
    /\ heap' = Append(heap, Record(name))
    /\ last' = Call("Record", Len(heap) + 1, name, << >>, << >>, NoExc, 0, << >>, data)
    /\ UNCHANGED <<impl, data>>

\* A Record method call whose result is res.
RecordCall(op, r, a1, a2, res) ==
    /\ heap' = [heap EXCEPT ![r].phones = res.phones]
    /\ last' = Call(op, r, "", a1, a2, res.out, res.ret, heap[r].phones, data)
    /\ UNCHANGED <<impl, data>>

\* record.add_phone(phone)
AddPhone(r, phone, max) ==
    /\ Len(heap[r].phones) < max
    /\ RecordCall("add_phone", r, phone, << >>, add_phone(heap[r].phones, phone))

\* record.remove_phone(phone)
RemovePhone(r, phone) ==
    RecordCall("remove_phone", r, phone, << >>, remove_phone(heap[r].phones, phone))

\* record.edit_phone(old_phone, new_phone)
EditPhone(r, old_phone, new_phone) ==
    RecordCall("edit_phone", r, old_phone, new_phone,
               edit_phone(heap[r].phones, old_phone, new_phone))

\* record.find_phone(phone)
FindPhone(r, phone) ==
    RecordCall("find_phone", r, phone, << >>, find_phone(heap[r].phones, phone))

\* book.add_record(record)
AddRecord(r) ==
    /\ data' = add_record(data, heap, r)
    /\ last' = Call("add_record", r, "", << >>, << >>, NoExc, 0, << >>, data)
    /\ UNCHANGED <<impl, heap>>

\* book.find(name)
Find(name) ==
    /\ last' = Call("find", 0, name, << >>, << >>, NoExc, find(data, name), << >>, data)
    /\ UNCHANGED <<impl, heap, data>>

\* book.delete(name)
Delete(name) ==
    /\ data' = delete(data, name).data
    /\ last' = Call("delete", 0, name, << >>, << >>, delete(data, name).out, 0, << >>, data)
    /\ UNCHANGED <<impl, heap>>

Recs == 1..Len(heap)

Next ==
    \/ \E name \in Names : NewRecord(name)
    \/ \E r \in Recs, phone \in BookRaw : AddPhone(r, phone, MaxBookPhones)
    \/ \E r \in Recs, phone \in BookRaw : RemovePhone(r, phone)
    \/ \E r \in Recs, old_phone \in BookRaw, new_phone \in BookRaw :
          EditPhone(r, old_phone, new_phone)
    \/ \E r \in Recs, phone \in BookRaw : FindPhone(r, phone)
    \/ \E r \in Recs : AddRecord(r)
    \/ \E name \in Names : Find(name)
    \/ \E name \in Names : Delete(name)

\* The address book: Record objects, their phone lists and the dict.
Spec == Init /\ [][Next]_vars

\* record = Record("Andriy"), no book.
InitRecord ==
    /\ impl \in Impls
    /\ heap = <<Record("Andriy")>>
    /\ data = EmptyDict
    /\ last = Call("Record", 1, "Andriy", << >>, << >>, NoExc, 0, << >>, EmptyDict)

NextRecord ==
    \/ \E phone \in Raw : AddPhone(1, phone, MaxPhones)
    \/ \E phone \in Raw : RemovePhone(1, phone)
    \/ \E old_phone \in Raw, new_phone \in Raw : EditPhone(1, old_phone, new_phone)
    \/ \E phone \in Raw : FindPhone(1, phone)

\* The phone methods of one Record.
SpecRecord == InitRecord /\ [][NextRecord]_vars

(* ============================== properties ============================= *)

ValidationMsg == "Phone number must contain exactly 10 digits"

NotFoundMsg ==
    IF impl = "privo" THEN "Phone number {old_phone} not found"
    ELSE "Phone number {old_phone} not found in the record"

\* The ValidationError of the documentation: what validation raises.
IsValidationError(out) == out.exc = "ValueError" /\ out.msg = ValidationMsg

Holds(phones, phone) == \E i \in 1..Len(phones) : phones[i] = phone

\* s with every entry equal to v left out, the others in their order.
RECURSIVE Without(_, _)
Without(s, v) ==
    IF s = << >> THEN << >>
    ELSE IF Head(s) = v THEN Without(Tail(s), v)
    ELSE <<Head(s)>> \o Without(Tail(s), v)

\* C1: every Phone held by every Record has exactly 10 characters, all of
\* them decimal digits '0'..'9', in every reachable state, in both files.
C1_PhonesAlwaysTenDigits ==
    \A r \in Recs : \A i \in 1..Len(heap[r].phones) : TenAsciiDigits(heap[r].phones[i])

\* C2: edit_phone(old, new) with old held and new not a valid 10-digit value
\* raises the validation error and leaves the phone list as it was.
C2_EditInvalidNewRejected ==
    [][(/\ last'.op = "edit_phone"
        /\ Holds(heap[last'.rec].phones, last'.a1)
        /\ ~TenAsciiDigits(last'.a2))
       => (IsValidationError(last'.out) /\ heap' = heap)]_vars

\* C3 as stated: edit_phone(old, new) with old not held raises the not-found
\* error for every new and leaves the phone list as it was, and that error is
\* of another kind (exception class) than the one validation raises.
C3_NotFoundIsDistinctKind ==
    [][(last'.op = "edit_phone" /\ ~Holds(heap[last'.rec].phones, last'.a1))
       => (/\ Raised(last'.out)
           /\ last'.out.msg = NotFoundMsg
           /\ last'.out.exc # privo_validate_phone(Empty).exc
           /\ last'.out.exc # telia_Phone_init(Empty).exc
           /\ heap' = heap)]_vars

\* C3 amended: edit_phone(old, new) with old not held raises ValueError with
\* the not-found message for every new, valid or not, and leaves the phone
\* list as it was; the exception class is the one validation raises, only
\* the message tells the two apart.
C3_NotFoundIsValueError ==
    [][(last'.op = "edit_phone" /\ ~Holds(heap[last'.rec].phones, last'.a1))
       => (/\ last'.out.exc = "ValueError"
           /\ last'.out.msg = NotFoundMsg
           /\ last'.out.msg # ValidationMsg
           /\ last'.out.exc = privo_validate_phone(Empty).exc
           /\ last'.out.exc = telia_Phone_init(Empty).exc
           /\ heap' = heap)]_vars

\* C3 witness: an edit_phone of a value the Record does not hold, with an
\* invalid new value, has raised the not-found ValueError.
C3_Witness ==
    /\ last.op = "edit_phone"
    /\ ~Holds(last.pre_phones, last.a1)
    /\ last.pre_phones # << >>
    /\ ~TenAsciiDigits(last.a2)
    /\ last.out = Raise("ValueError", NotFoundMsg)
    /\ heap[last.rec].phones = last.pre_phones

\* C4: add_phone(raw) succeeds exactly when raw is 10 characters, each one of
\* '0'..'9'; then raw is appended as the last entry and the earlier entries
\* stay; otherwise it raises the validation error and the list is unchanged.
C4_AddPhoneExactlyTenDigits ==
    [][(last'.op = "add_phone")
       => IF TenAsciiDigits(last'.a1)
          THEN /\ ~Raised(last'.out)
               /\ heap'[last'.rec].phones = Append(heap[last'.rec].phones, last'.a1)
          ELSE /\ IsValidationError(last'.out)
               /\ heap' = heap]_vars

\* C5: a successful edit_phone(old, new) rewrites only the first entry equal
\* to old; the length, the position of that entry and every other entry
\* (later duplicates of old too) stay.
C5_EditReplacesFirstOnly ==
    [][(last'.op = "edit_phone" /\ ~Raised(last'.out))
       => LET before == heap[last'.rec].phones
              after == heap'[last'.rec].phones
          IN  /\ Len(after) = Len(before)
              /\ \E i \in 1..Len(before) :
                    /\ before[i] = last'.a1
                    /\ \A j \in 1..(i - 1) : before[j] # last'.a1
                    /\ after[i] = last'.a2
                    /\ \A j \in 1..Len(before) : j # i => after[j] = before[j]
              /\ \A r \in Recs : r # last'.rec => heap'[r] = heap[r]]_vars

\* C5 witness: a successful edit_phone on a list that held old twice: the
\* first entry has the new value, the later one still has old.
C5_Witness ==
    /\ last.op = "edit_phone"
    /\ ~Raised(last.out)
    /\ last.a1 # last.a2
    /\ \E i, j \in 1..Len(last.pre_phones) :
          /\ i < j
          /\ last.pre_phones[i] = last.a1
          /\ last.pre_phones[j] = last.a1
          /\ \A k \in 1..(i - 1) : last.pre_phones[k] # last.a1
          /\ heap[last.rec].phones[i] = last.a2
          /\ heap[last.rec].phones[j] = last.a1

\* C6: remove_phone(raw) never raises and leaves the list with every entry
\* equal to raw removed, the others in their order; the list is unchanged
\* when no entry equals raw.
C6_RemoveDropsAllMatches ==
    [][(last'.op = "remove_phone")
       => LET before == heap[last'.rec].phones
              after == heap'[last'.rec].phones
          IN  /\ ~Raised(last'.out)
              /\ after = Without(before, last'.a1)
              /\ (~Holds(before, last'.a1) => after = before)]_vars

\* C6 witness: a remove_phone on a list that held raw twice around another
\* entry has left that other entry alone.
C6_Witness ==
    /\ last.op = "remove_phone"
    /\ Len(last.pre_phones) = 3
    /\ last.pre_phones[1] = last.a1
    /\ last.pre_phones[2] # last.a1
    /\ last.pre_phones[3] = last.a1
    /\ heap[last.rec].phones = <<last.pre_phones[2]>>

\* C7: after add_record(r), r named N, find(N) is r itself until a later
\* add_record under N or delete(N): a second add_record under N replaces the
\* first, and calls on r's phones do not change what find(N) returns, so the
\* Record found shows them.
C7_FindReturnsAddedRecord ==
    [][/\ (last'.op = "add_record"
             => /\ find(data', heap[last'.rec].name) = last'.rec
                /\ heap' = heap)
       /\ (last'.op = "find"
             => last'.ret = (IF last'.name \in DOMAIN data THEN data[last'.name] ELSE 0))
       /\ \A N \in DOMAIN data :
             (/\ ~(last'.op = "add_record" /\ heap[last'.rec].name = N)
              /\ ~(last'.op = "delete" /\ last'.name = N))
             => (N \in DOMAIN data' /\ data'[N] = data[N])]_vars

\* C7 witness: an add_record of a second Record under a name the book held
\* for another Record: find of that name is now the second Record.
C7_Witness ==
    /\ last.op = "add_record"
    /\ heap[last.rec].name \in DOMAIN last.pre_data
    /\ last.pre_data[heap[last.rec].name] # last.rec
    /\ find(data, heap[last.rec].name) = last.rec

\* C8: delete(N) never raises; afterwards find(N) is None and N is no key of
\* the book, the entries under the other names are unchanged; with N absent
\* the book is unchanged.
C8_DeleteRemovesOnlyN ==
    [][(last'.op = "delete")
       => /\ ~Raised(last'.out)
          /\ find(data', last'.name) = 0
          /\ last'.name \notin DOMAIN data'
          /\ DOMAIN data' = DOMAIN data \ {last'.name}
          /\ \A k \in DOMAIN data' : data'[k] = data[k]
          /\ (last'.name \notin DOMAIN data => data' = data)
          /\ heap' = heap]_vars

\* C8 witness: a delete of a name the book held, with an entry under the
\* other name still there.
C8_Witness ==
    /\ last.op = "delete"
    /\ last.name \in DOMAIN last.pre_data
    /\ last.name \notin DOMAIN data
    /\ data # EmptyDict

Agree(a, b) == a.phones = b.phones /\ a.out.exc = b.out.exc /\ a.ret = b.ret

\* C9: the two files are equivalent: from every state a run reaches, each
\* call made with the same arguments raises or succeeds alike in privo.py and
\* in telia.py, returns the same and leaves the same phone list and book.
C9_ImplementationsAgree ==
    /\ \A r \in Recs : \A p \in Raw :
          LET phones == heap[r].phones
          IN  /\ Agree(privo_add_phone(phones, p), telia_add_phone(phones, p))
              /\ Agree(privo_remove_phone(phones, p), telia_remove_phone(phones, p))
              /\ Agree(privo_find_phone(phones, p), telia_find_phone(phones, p))
              /\ \A q \in Raw :
                    Agree(privo_edit_phone(phones, p, q), telia_edit_phone(phones, p, q))
    /\ \A r \in Recs : privo_add_record(data, heap, r) = telia_add_record(data, heap, r)
    /\ \A n \in Names :
          /\ privo_find(data, n) = telia_find(data, n)
          /\ privo_delete(data, n).data = telia_delete(data, n).data
          /\ privo_delete(data, n).out.exc = telia_delete(data, n).out.exc

\* C10: every key k of the book maps to a Record whose name is k, so find(k)
\* never returns a Record of another name.
C10_KeyIsRecordName ==
    /\ \A k \in DOMAIN data : data[k] \in Recs /\ heap[data[k]].name = k
    /\ (last.op = "find" /\ last.ret # 0) => heap[last.ret].name = last.name

\* C10 witness: a find has returned a Record while the book holds an entry
\* under each name, after calls on the phones of the Record found.
C10_Witness ==
    /\ last.op = "find"
    /\ last.ret # 0
    /\ DOMAIN data = Names
    /\ heap[last.ret].phones # << >>

====
